---- MODULE Spec2Model ----
(***************************************************************************)
(* TOL_Dash (src/app.py): a Dash page over one CSV dataset.  The dataset   *)
(* is loaded and converted once (preprocess_dataset), and four callbacks   *)
(* recompute the cascading dropdown option lists and the map figure from   *)
(* the control values they are handed.                                     *)
(*                                                                         *)
(* Number encoding.  The CSV holds decimal numbers; the model keeps them   *)
(* as exact fixed-point integers:                                          *)
(*   - a stored market-share ratio r is kept as r * RatioOne (five         *)
(*     decimals), a converted percentage p as p * PctScale (the two        *)
(*     decimals .round(2) leaves);                                         *)
(*   - Net Add is kept in halves (x * NetAddScale), so that int() of a     *)
(*     non-integral extreme is a real truncation;                          *)
(*   - Potential Score, Latitude and Longitude take whole values;          *)
(*   - a mean is the pair <<sum, count>>, so the mean of no rows is        *)
(*     <<0, 0>>: 0/0, pandas' NaN.                                         *)
(* A missing cell (pandas NaN) in a column is outside the model: the       *)
(* rows drawn have every field present.                                    *)
(***************************************************************************)
EXTENDS Integers, Sequences, FiniteSets, TLC

VARIABLES
    pc,                  \* "start" before the module-level load, then "running"
    raw,                 \* the CSV's rows, as stored (ratios)
    data,                \* the module-level DataFrame `data`
    province,            \* value of 'province-filter'   (None when unselected)
    district,            \* value of 'district-filter'
    subdistrict,         \* value of 'subdistrict-filter'
    happyblock,          \* value of 'happyblock-filter'
    net_add_range,       \* value of 'net-add-slider'            <<lo, hi>>
    potential_range,     \* value of 'potential-score-slider'    <<lo, hi>>
    market_share_range,  \* value of 'market-share-true-slider'  <<lo, hi>>
    district_options,    \* options of 'district-filter'
    subdistrict_options, \* options of 'subdistrict-filter'
    happyblock_options,  \* options of 'happyblock-filter'
    figure,              \* figure of 'map'
    pending,             \* callbacks the framework has fired and not yet run
    sanitizes,           \* whether the installed dcc.Dropdown drops a value
                         \* that its new options no longer offer
    gestures             \* how many times the user (or a client) has set a control

vars == <<pc, raw, data, province, district, subdistrict, happyblock,
          net_add_range, potential_range, market_share_range,
          district_options, subdistrict_options, happyblock_options,
          figure, pending, sanitizes, gestures>>

controls == <<province, district, subdistrict, happyblock,
              net_add_range, potential_range, market_share_range>>

outputs == <<district_options, subdistrict_options, happyblock_options, figure>>

----------------------------------------------------------------------------
(* Bounds and encodings *)

\* Longest dataset drawn.
MaxRows == 2

\* Fixed-point unit of a stored ratio: 1.0 is RatioOne.
RatioOne == 100000

\* Fixed-point unit of a converted percentage: .round(2) keeps two decimals.
PctScale == 100

\* Fixed-point unit of Net Add: halves.
NetAddScale == 2

\* Python's None: a dropdown with nothing selected.
None == "None"

\* pandas' NaN as a mean: 0/0.
NaN == <<0, 0>>

----------------------------------------------------------------------------
(* The input: rows a CSV may hold.  The hierarchy fields are strings, the   *)
(* four ratios lie in [0, 1], Potential Score in [0, 100] (spec section 3). *)

Row(p, d, s, h, lat, lon, na, ps, t, a, b, n) ==
    [Province |-> p, District |-> d, Subdistrict |-> s, HappyBlock |-> h,
     Latitude |-> lat, Longitude |-> lon, NetAdd |-> na, PotentialScore |-> ps,
     MarketShareTrue |-> t, MarketShareAIS |-> a,
     MarketShare3BB |-> b, MarketShareNT |-> n]

R1 == Row("P1", "D1", "S1", "H1", 7, 100, -5,  80,  12345,  50000,  20005, 17650)
R2 == Row("P1", "D1", "S1", "H2", 8, 100,  0,   0,      0, 100000,      0,     0)
R3 == Row("P1", "D1", "S2", "H3", 9, 101,  4, 100, 100000,      0,      0,     0)
R4 == Row("P1", "D2", "S3", "H1", 7,  99,  7,  50,  99995,      4,      1,     0)
R5 == Row("P2", "D3", "S2", "H2", 6, 100,  2,  10,  50000,  12355,  12365, 25280)
R6 == Row("P2", "D3", "S3", "H3", 6, 101,  4,  80,  50004,  49996,      0,     0)

Rows == {R1, R2, R3, R4, R5, R6}

\* Every dataset of up to MaxRows rows, in every order, repeats included.
Datasets == UNION { [1..n -> Rows] : n \in 1..MaxRows }

\* The datasets the page is driven on: two provinces that share a
\* sub-district name, and one province alone.
PageDatasets == { <<R1, R2, R3, R4, R5, R6>>, <<R5, R1, R4>>, <<R3, R1>> }

ProvinceValues    == { r.Province : r \in Rows }
DistrictValues    == { r.District : r \in Rows }
SubdistrictValues == { r.Subdistrict : r \in Rows }
HappyBlockValues  == { r.HappyBlock : r \in Rows }

----------------------------------------------------------------------------
(* preprocess_dataset *)

\* RoundHalfEven gone wrong: the quotient always bumped up.
RoundUp(n, d) == n \div d + 1

\* numpy's round: to the nearest, a tie to the even neighbour (n >= 0, d > 0).
RoundHalfEven(n, d) ==
    LET q == n \div d
        r == n % d
    IN  IF 2 * r < d THEN q
        ELSE IF 2 * r > d THEN q + 1
        ELSE IF q % 2 = 0 THEN q ELSE q + 1

\* (data[col] * 100).round(2) of one stored ratio.
ToPercentage(ratio) == RoundHalfEven(ratio * 100 * PctScale, RatioOne)

ConvertRow(r) ==
    [r EXCEPT !.MarketShareTrue = ToPercentage(@),
              !.MarketShareAIS  = ToPercentage(@),
              !.MarketShare3BB  = ToPercentage(@),
              !.MarketShareNT   = ToPercentage(@)]

preprocess_dataset(csv) == [i \in 1..Len(csv) |-> ConvertRow(csv[i])]

----------------------------------------------------------------------------
(* pandas helpers.  A filtered frame is the sequence of the index labels    *)
(* (row numbers of `data`) it keeps, in the dataset's order.                *)

Range(seq) == { seq[i] : i \in 1..Len(seq) }

\* `if selected_x:` -- None and the empty string are falsy.
Truthy(v) == v /= None /\ v /= ""

\* data.copy(): every row.
Copy(d) == [i \in 1..Len(d) |-> i]

\* WhereHappyBlock gone wrong: the mask of the whole dataset applied to the
\* frame by position instead of by index label.
WhereHappyBlockByPosition(d, frame, v) ==
    LET kept == { k \in 1..Len(frame) : d[k].HappyBlock = v }
    IN  SelectSeq(frame, LAMBDA i : \E k \in kept : frame[k] = i)

\* frame[frame[col] == v], one function per column compared.
WhereProvince(d, frame, v)    == SelectSeq(frame, LAMBDA i : d[i].Province = v)
WhereDistrict(d, frame, v)    == SelectSeq(frame, LAMBDA i : d[i].District = v)
WhereSubdistrict(d, frame, v) == SelectSeq(frame, LAMBDA i : d[i].Subdistrict = v)
WhereHappyBlock(d, frame, v)  == SelectSeq(frame, LAMBDA i : d[i].HappyBlock = v)

\* frame[col]
ProvinceOf(d, frame)    == [k \in 1..Len(frame) |-> d[frame[k]].Province]
DistrictOf(d, frame)    == [k \in 1..Len(frame) |-> d[frame[k]].District]
SubdistrictOf(d, frame) == [k \in 1..Len(frame) |-> d[frame[k]].Subdistrict]
HappyBlockOf(d, frame)  == [k \in 1..Len(frame) |-> d[frame[k]].HappyBlock]
LatitudeOf(d, frame)    == [k \in 1..Len(frame) |-> d[frame[k]].Latitude]
LongitudeOf(d, frame)   == [k \in 1..Len(frame) |-> d[frame[k]].Longitude]
NetAddOf(d, frame)      == [k \in 1..Len(frame) |-> d[frame[k]].NetAdd]

\* Series.unique(): the distinct values, in first-seen order.
RECURSIVE UniqueFrom(_, _)
UniqueFrom(seen, series) ==
    IF series = <<>> THEN seen
    ELSE IF Head(series) \in Range(seen) THEN UniqueFrom(seen, Tail(series))
    ELSE UniqueFrom(Append(seen, Head(series)), Tail(series))

Unique(series) == UniqueFrom(<<>>, series)

RECURSIVE Sum(_)
Sum(series) == IF series = <<>> THEN 0 ELSE Head(series) + Sum(Tail(series))

\* Series.mean(): sum over count; of an empty series 0/0, NaN, with no exception.
Mean(series) == <<Sum(series), Len(series)>>

IsNaN(m) == m[2] = 0

\* Series.min() and Series.max() of a non-empty series.
Min(series) == CHOOSE x \in Range(series) : \A y \in Range(series) : x <= y
Max(series) == CHOOSE x \in Range(series) : \A y \in Range(series) : x >= y

\* int(x) of a Net Add value: truncation toward zero, to a whole number.
PyInt(x) == IF x >= 0 THEN x \div NetAddScale ELSE -((-x) \div NetAddScale)

----------------------------------------------------------------------------
(* app.layout: the initial control values *)

ProvinceOptions(d) == Unique(ProvinceOf(d, Copy(d)))

NetAddSliderMin(d) == PyInt(Min(NetAddOf(d, Copy(d))))
NetAddSliderMax(d) == PyInt(Max(NetAddOf(d, Copy(d))))

NetAddSliderValue(d) == <<NetAddSliderMin(d), NetAddSliderMax(d)>>
PotentialSliderValue == <<0, 100>>
MarketShareSliderValue == <<0, 100>>

----------------------------------------------------------------------------
(* The callbacks, as functions of the dataset and the values handed in *)

update_district_filter(d, selected_province) ==
    IF Truthy(selected_province)
    THEN Unique(DistrictOf(d, WhereProvince(d, Copy(d), selected_province)))
    ELSE <<>>

\* update_subdistrict_filter gone wrong: the district is not applied.
update_subdistrict_filter_by_province(d, selected_province, selected_district) ==
    IF Truthy(selected_province)
    THEN Unique(SubdistrictOf(d, WhereProvince(d, Copy(d), selected_province)))
    ELSE Unique(SubdistrictOf(d, Copy(d)))

update_subdistrict_filter(d, selected_province, selected_district) ==
    LET f0 == Copy(d)
        f1 == IF Truthy(selected_province)
              THEN WhereProvince(d, f0, selected_province) ELSE f0
        f2 == IF Truthy(selected_district)
              THEN WhereDistrict(d, f1, selected_district) ELSE f1
    IN  Unique(SubdistrictOf(d, f2))

\* update_happyblock_filter gone wrong: the province is not applied.
update_happyblock_filter_below_province(d, selected_province, selected_district, selected_subdistrict) ==
    LET f0 == Copy(d)
        f2 == IF Truthy(selected_district)
              THEN WhereDistrict(d, f0, selected_district) ELSE f0
        f3 == IF Truthy(selected_subdistrict)
              THEN WhereSubdistrict(d, f2, selected_subdistrict) ELSE f2
    IN  Unique(HappyBlockOf(d, f3))

update_happyblock_filter(d, selected_province, selected_district, selected_subdistrict) ==
    LET f0 == Copy(d)
        f1 == IF Truthy(selected_province)
              THEN WhereProvince(d, f0, selected_province) ELSE f0
        f2 == IF Truthy(selected_district)
              THEN WhereDistrict(d, f1, selected_district) ELSE f1
        f3 == IF Truthy(selected_subdistrict)
              THEN WhereSubdistrict(d, f2, selected_subdistrict) ELSE f2
    IN  Unique(HappyBlockOf(d, f3))

\* RangeMask gone wrong: the upper ends exclusive.
RangeMaskExclusive(d, frame, net_add, potential, market_share) ==
    SelectSeq(frame, LAMBDA i :
        /\ d[i].NetAdd >= net_add[1] * NetAddScale
        /\ d[i].NetAdd < net_add[2] * NetAddScale
        /\ d[i].PotentialScore >= potential[1]
        /\ d[i].PotentialScore < potential[2]
        /\ d[i].MarketShareTrue >= market_share[1] * PctScale
        /\ d[i].MarketShareTrue < market_share[2] * PctScale)

\* The combined range mask of update_map (all six comparisons inclusive).
RangeMask(d, frame, net_add, potential, market_share) ==
    SelectSeq(frame, LAMBDA i :
        /\ d[i].NetAdd >= net_add[1] * NetAddScale
        /\ d[i].NetAdd <= net_add[2] * NetAddScale
        /\ d[i].PotentialScore >= potential[1]
        /\ d[i].PotentialScore <= potential[2]
        /\ d[i].MarketShareTrue >= market_share[1] * PctScale
        /\ d[i].MarketShareTrue <= market_share[2] * PctScale)

\* filtered_data of update_map.
FilteredData(d, selected_province, selected_district, selected_subdistrict, selected_happyblock, net_add, potential, market_share) ==
    LET f0 == Copy(d)
        f1 == IF Truthy(selected_province)
              THEN WhereProvince(d, f0, selected_province) ELSE f0
        f2 == IF Truthy(selected_district)
              THEN WhereDistrict(d, f1, selected_district) ELSE f1
        f3 == IF Truthy(selected_subdistrict)
              THEN WhereSubdistrict(d, f2, selected_subdistrict) ELSE f2
        f4 == IF Truthy(selected_happyblock)
              THEN WhereHappyBlock(d, f3, selected_happyblock) ELSE f3
    IN  RangeMask(d, f4, net_add, potential, market_share)

\* The mapbox center update_layout is given.
MapCenter(d, frame) ==
    [lat |-> Mean(LatitudeOf(d, frame)), lon |-> Mean(LongitudeOf(d, frame))]

\* The figure update_map returns: the rows plotted and the map center.
update_map(d, selected_province, selected_district, selected_subdistrict, selected_happyblock, net_add, potential, market_share) ==
    LET filtered_data ==
            FilteredData(d, selected_province, selected_district,
                         selected_subdistrict, selected_happyblock,
                         net_add, potential, market_share)
    IN  [drawn |-> TRUE, rows |-> filtered_data,
         center |-> MapCenter(d, filtered_data)]

\* The 'map' graph before any figure has come back.
NoFigure == [drawn |-> FALSE, rows |-> <<>>, center |-> [lat |-> NaN, lon |-> NaN]]

----------------------------------------------------------------------------
(* The program: the module-level load, then the framework running the      *)
(* callbacks it has fired.                                                  *)

Callbacks == {"update_district_filter", "update_subdistrict_filter",
              "update_happyblock_filter", "update_map"}

\* The callbacks that list each control as an Input.
OnProvince    == Callbacks
OnDistrict    == {"update_subdistrict_filter", "update_happyblock_filter", "update_map"}
OnSubdistrict == {"update_happyblock_filter", "update_map"}
OnHappyBlock  == {"update_map"}
OnSlider      == {"update_map"}

InitServer ==
    /\ pc = "start"
    /\ data = <<>>
    /\ province = None
    /\ district = None
    /\ subdistrict = None
    /\ happyblock = None
    /\ net_add_range = <<0, 0>>
    /\ potential_range = <<0, 0>>
    /\ market_share_range = <<0, 0>>
    /\ district_options = <<>>
    /\ subdistrict_options = <<>>
    /\ happyblock_options = <<>>
    /\ figure = NoFigure
    /\ pending = {}
    /\ gestures = 0

\* Module import: preprocess_dataset, then the layout with its initial
\* values; serving the page fires every callback once.
Load ==
    /\ pc = "start"
    /\ pc' = "running"
    /\ data' = preprocess_dataset(raw)
    /\ province' = None
    /\ district' = None
    /\ subdistrict' = None
    /\ happyblock' = None
    /\ net_add_range' = NetAddSliderValue(data')
    /\ potential_range' = PotentialSliderValue
    /\ market_share_range' = MarketShareSliderValue
    /\ district_options' = <<>>
    /\ subdistrict_options' = <<>>
    /\ happyblock_options' = <<>>
    /\ figure' = NoFigure
    /\ pending' = Callbacks
    /\ UNCHANGED <<raw, sanitizes, gestures>>

RunUpdateDistrictFilter ==
    /\ pc = "running"
    /\ "update_district_filter" \in pending
    /\ district_options' = update_district_filter(data, province)
    /\ pending' = pending \ {"update_district_filter"}
    /\ UNCHANGED <<pc, raw, data, controls, subdistrict_options,
                   happyblock_options, figure, sanitizes, gestures>>

RunUpdateSubdistrictFilter ==
    /\ pc = "running"
    /\ "update_subdistrict_filter" \in pending
    /\ subdistrict_options' = update_subdistrict_filter(data, province, district)
    /\ pending' = pending \ {"update_subdistrict_filter"}
    /\ UNCHANGED <<pc, raw, data, controls, district_options,
                   happyblock_options, figure, sanitizes, gestures>>

RunUpdateHappyBlockFilter ==
    /\ pc = "running"
    /\ "update_happyblock_filter" \in pending
    /\ happyblock_options' =
           update_happyblock_filter(data, province, district, subdistrict)
    /\ pending' = pending \ {"update_happyblock_filter"}
    /\ UNCHANGED <<pc, raw, data, controls, district_options,
                   subdistrict_options, figure, sanitizes, gestures>>

\* RunUpdateMap gone wrong: update_map converts the shared dataset again
\* before filtering it.
RunUpdateMapConverting ==
    /\ pc = "running"
    /\ "update_map" \in pending
    /\ data' = preprocess_dataset(data)
    /\ figure' = update_map(data', province, district, subdistrict, happyblock,
                            net_add_range, potential_range, market_share_range)
    /\ pending' = pending \ {"update_map"}
    /\ UNCHANGED <<pc, raw, controls, district_options,
                   subdistrict_options, happyblock_options, sanitizes, gestures>>

RunUpdateMap ==
    /\ pc = "running"
    /\ "update_map" \in pending
    /\ figure' = update_map(data, province, district, subdistrict, happyblock,
                            net_add_range, potential_range, market_share_range)
    /\ pending' = pending \ {"update_map"}
    /\ UNCHANGED <<pc, raw, data, controls, district_options,
                   subdistrict_options, happyblock_options, sanitizes, gestures>>

----------------------------------------------------------------------------
(* The page in a browser: the user's gestures and the Dropdown component *)

\* Gestures the user makes in one run.
MaxGestures == 3

\* province-filter's options, fixed by the layout.
province_options == ProvinceOptions(data)

\* The stops the model's user drags a slider handle to.  The Net Add slider
\* runs from its min in steps of 2; the two percentage sliders run from 0 to
\* 100 in steps of 1, of which the user visits the ends and the middle.
NetAddStops ==
    { v \in NetAddSliderMin(data)..NetAddSliderMax(data) :
          (v - NetAddSliderMin(data)) % 2 = 0 }
PercentStops == {0, 50, 100}

SliderRanges(stops) == { <<lo, hi>> : lo \in stops, hi \in stops } \ 
                       { <<lo, hi>> \in stops \X stops : lo > hi }

\* A Dropdown that sanitizes drops a value its options do not offer, which
\* is a change of the value like any other: it fires the value's callbacks.
\* Nothing in app.py writes a dropdown's value.
Stale(value, options, run_by) ==
    value /= None /\ run_by \notin pending /\ value \notin Range(options)

\* The page has settled: every fired callback has run and the Dropdown
\* components have nothing left to drop.
Settled ==
    /\ pc = "running"
    /\ pending = {}
    /\ sanitizes =>
           /\ ~Stale(district, district_options, "update_district_filter")
           /\ ~Stale(subdistrict, subdistrict_options, "update_subdistrict_filter")
           /\ ~Stale(happyblock, happyblock_options, "update_happyblock_filter")

\* The user makes the next gesture on a settled page.  Each callback is a
\* function of the dataset and the current values, so a gesture made while
\* callbacks are in flight only has them run again on the same values.
UserMay == Settled /\ gestures < MaxGestures

SelectProvince ==
    /\ UserMay
    /\ \E v \in (Range(province_options) \cup {None}) \ {province} :
           province' = v
    /\ pending' = pending \cup OnProvince
    /\ gestures' = gestures + 1
    /\ UNCHANGED <<pc, raw, data, district, subdistrict, happyblock,
                   net_add_range, potential_range, market_share_range,
                   outputs, sanitizes>>

SelectDistrict ==
    /\ UserMay
    /\ \E v \in (Range(district_options) \cup {None}) \ {district} :
           district' = v
    /\ pending' = pending \cup OnDistrict
    /\ gestures' = gestures + 1
    /\ UNCHANGED <<pc, raw, data, province, subdistrict, happyblock,
                   net_add_range, potential_range, market_share_range,
                   outputs, sanitizes>>

SelectSubdistrict ==
    /\ UserMay
    /\ \E v \in (Range(subdistrict_options) \cup {None}) \ {subdistrict} :
           subdistrict' = v
    /\ pending' = pending \cup OnSubdistrict
    /\ gestures' = gestures + 1
    /\ UNCHANGED <<pc, raw, data, province, district, happyblock,
                   net_add_range, potential_range, market_share_range,
                   outputs, sanitizes>>

SelectHappyBlock ==
    /\ UserMay
    /\ \E v \in (Range(happyblock_options) \cup {None}) \ {happyblock} :
           happyblock' = v
    /\ pending' = pending \cup OnHappyBlock
    /\ gestures' = gestures + 1
    /\ UNCHANGED <<pc, raw, data, province, district, subdistrict,
                   net_add_range, potential_range, market_share_range,
                   outputs, sanitizes>>

MoveNetAddSlider ==
    /\ UserMay
    /\ \E v \in SliderRanges(NetAddStops) \ {net_add_range} :
           net_add_range' = v
    /\ pending' = pending \cup OnSlider
    /\ gestures' = gestures + 1
    /\ UNCHANGED <<pc, raw, data, province, district, subdistrict, happyblock,
                   potential_range, market_share_range, outputs, sanitizes>>

MovePotentialSlider ==
    /\ UserMay
    /\ \E v \in SliderRanges(PercentStops) \ {potential_range} :
           potential_range' = v
    /\ pending' = pending \cup OnSlider
    /\ gestures' = gestures + 1
    /\ UNCHANGED <<pc, raw, data, province, district, subdistrict, happyblock,
                   net_add_range, market_share_range, outputs, sanitizes>>

MoveMarketShareSlider ==
    /\ UserMay
    /\ \E v \in SliderRanges(PercentStops) \ {market_share_range} :
           market_share_range' = v
    /\ pending' = pending \cup OnSlider
    /\ gestures' = gestures + 1
    /\ UNCHANGED <<pc, raw, data, province, district, subdistrict, happyblock,
                   net_add_range, potential_range, outputs, sanitizes>>

SanitizeDistrict ==
    /\ pc = "running" /\ sanitizes
    /\ Stale(district, district_options, "update_district_filter")
    /\ district' = None
    /\ pending' = pending \cup OnDistrict
    /\ UNCHANGED <<pc, raw, data, province, subdistrict, happyblock,
                   net_add_range, potential_range, market_share_range,
                   outputs, sanitizes, gestures>>

SanitizeSubdistrict ==
    /\ pc = "running" /\ sanitizes
    /\ Stale(subdistrict, subdistrict_options, "update_subdistrict_filter")
    /\ subdistrict' = None
    /\ pending' = pending \cup OnSubdistrict
    /\ UNCHANGED <<pc, raw, data, province, district, happyblock,
                   net_add_range, potential_range, market_share_range,
                   outputs, sanitizes, gestures>>

SanitizeHappyBlock ==
    /\ pc = "running" /\ sanitizes
    /\ Stale(happyblock, happyblock_options, "update_happyblock_filter")
    /\ happyblock' = None
    /\ pending' = pending \cup OnHappyBlock
    /\ UNCHANGED <<pc, raw, data, province, district, subdistrict,
                   net_add_range, potential_range, market_share_range,
                   outputs, sanitizes, gestures>>

Init == InitServer /\ raw \in PageDatasets /\ sanitizes \in BOOLEAN

Next ==
    \/ Load
    \/ RunUpdateDistrictFilter
    \/ RunUpdateSubdistrictFilter
    \/ RunUpdateHappyBlockFilter
    \/ RunUpdateMap
    \/ SelectProvince
    \/ SelectDistrict
    \/ SelectSubdistrict
    \/ SelectHappyBlock
    \/ MoveNetAddSlider
    \/ MovePotentialSlider
    \/ MoveMarketShareSlider
    \/ SanitizeDistrict
    \/ SanitizeSubdistrict
    \/ SanitizeHappyBlock

Spec == Init /\ [][Next]_vars

----------------------------------------------------------------------------
(* The callbacks as the server's endpoints.  A callback is handed its Input *)
(* values by the request and nothing else, so a client may hand it any      *)
(* values: a selection the dataset does not hold, a range whose ends are    *)
(* equal or crossed.  A run serves one such request: the callbacks keep     *)
(* nothing from one request to the next, and the client's outputs start     *)
(* empty.                                                                   *)

InitEndpoints == InitServer /\ raw \in Datasets /\ sanitizes = FALSE

Selections(values) == values \cup {None}

\* The ranges requested; the sliders' initial values are what the page's
\* first call hands update_map.  Each has ends that fall on values of the
\* data; one Net Add range and one Market Share range have equal ends.
NetAddRanges == { <<2, 2>>, <<-3, 2>> }
PotentialRanges == { <<50, 100>>, <<0, 10>> }
MarketShareRanges == { <<0, 100>>, <<50, 50>> }

OptionsRequest ==
    /\ pc = "running" /\ gestures = 0
    /\ gestures' = 1
    /\ province' \in Selections(ProvinceValues)
    /\ district' \in Selections(DistrictValues)
    /\ subdistrict' \in Selections(SubdistrictValues)
    /\ district_options' = <<>>
    /\ subdistrict_options' = <<>>
    /\ happyblock_options' = <<>>
    /\ pending' = {"update_district_filter", "update_subdistrict_filter",
                   "update_happyblock_filter"}
    /\ UNCHANGED <<pc, raw, data, happyblock, net_add_range, potential_range,
                   market_share_range, figure, sanitizes>>

MapRequest ==
    /\ pc = "running" /\ gestures = 0
    /\ gestures' = 1
    /\ province' \in Selections(ProvinceValues)
    /\ district' \in Selections(DistrictValues)
    /\ subdistrict' \in Selections(SubdistrictValues)
    /\ happyblock' \in Selections(HappyBlockValues)
    /\ net_add_range' \in NetAddRanges
    /\ potential_range' \in PotentialRanges
    /\ market_share_range' \in MarketShareRanges
    /\ figure' = NoFigure
    /\ pending' = {"update_map"}
    /\ UNCHANGED <<pc, raw, data, district_options, subdistrict_options,
                   happyblock_options, sanitizes>>

NextOptions ==
    \/ Load
    \/ OptionsRequest
    \/ RunUpdateDistrictFilter
    \/ RunUpdateSubdistrictFilter
    \/ RunUpdateHappyBlockFilter

SpecOptions == InitEndpoints /\ [][NextOptions]_vars

NextMap ==
    \/ Load
    \/ MapRequest
    \/ RunUpdateMap

SpecMap == InitEndpoints /\ [][NextMap]_vars

----------------------------------------------------------------------------
(* Properties *)

\* The figure on show was computed by update_map from the current values.
MapDone == pc = "running" /\ figure.drawn /\ "update_map" \notin pending

\* The three option lists were computed from the current values.
Resolvers == {"update_district_filter", "update_subdistrict_filter",
              "update_happyblock_filter"}
OptionsDone == pc = "running" /\ pending \cap Resolvers = {}

NoDuplicates(seq) == Cardinality(Range(seq)) = Len(seq)

Between(x, lo, hi) == lo <= x /\ x <= hi

\* Record r satisfies every supplied constraint of the current control values.
Satisfies(r) ==
    /\ province /= None => r.Province = province
    /\ district /= None => r.District = district
    /\ subdistrict /= None => r.Subdistrict = subdistrict
    /\ happyblock /= None => r.HappyBlock = happyblock
    /\ Between(r.NetAdd, net_add_range[1] * NetAddScale,
               net_add_range[2] * NetAddScale)
    /\ Between(r.PotentialScore, potential_range[1], potential_range[2])
    /\ Between(r.MarketShareTrue, market_share_range[1] * PctScale,
               market_share_range[2] * PctScale)

\* C1: update_map keeps exactly the records that equal every present
\* dropdown selection and lie in all three ranges, ends included; an absent
\* selection removes nothing, and nothing outside this set is kept.
C1_MapKeepsExactlyTheMatches ==
    MapDone =>
        /\ \A i \in 1..Len(data) : i \in Range(figure.rows) <=> Satisfies(data[i])
        /\ NoDuplicates(figure.rows)

\* C1's case: a range with equal ends keeps the one row equal to it and
\* drops the other, under a province selection.
C1_Witness ==
    /\ MapDone
    /\ province /= None /\ happyblock = None
    /\ net_add_range[1] = net_add_range[2]
    /\ Len(data) = 2 /\ Len(figure.rows) = 1
    /\ data[figure.rows[1]].NetAdd = net_add_range[1] * NetAddScale
    /\ \E i \in 1..Len(data) : data[i].Province = province /\ i \notin Range(figure.rows)

\* C2: when nothing matches, the figure's map center is still a defined
\* latitude and longitude.
C2_EmptyMatchHasDefinedCenter ==
    (MapDone /\ figure.rows = <<>>) =>
        ~IsNaN(figure.center.lat) /\ ~IsNaN(figure.center.lon)

\* C3: the District options are the distinct districts of the whole dataset
\* with no Province chosen, and those of the Province's rows with one chosen.
C3_DistrictOptionsOfSelection ==
    (pc = "running" /\ "update_district_filter" \notin pending) =>
        Range(district_options) =
            { data[i].District : i \in { j \in 1..Len(data) :
                  province /= None => data[j].Province = province } }

\* C4: for a (province, district) pair the data holds, the Sub-district
\* options are exactly the distinct sub-districts of the rows matching both;
\* the Happy Block options are exactly the distinct happy blocks of the rows
\* matching every supplied Province/District/Sub-district constraint.
C4_OptionsAreTheDistinctValues ==
    OptionsDone =>
        /\ ( /\ province /= None /\ district /= None
             /\ \E i \in 1..Len(data) :
                    data[i].Province = province /\ data[i].District = district )
           => /\ Range(subdistrict_options) =
                     { data[i].Subdistrict : i \in { j \in 1..Len(data) :
                           /\ data[j].Province = province
                           /\ data[j].District = district } }
              /\ NoDuplicates(subdistrict_options)
        /\ Range(happyblock_options) =
               { data[i].HappyBlock : i \in { j \in 1..Len(data) :
                     /\ province /= None => data[j].Province = province
                     /\ district /= None => data[j].District = district
                     /\ subdistrict /= None => data[j].Subdistrict = subdistrict } }
        /\ NoDuplicates(happyblock_options)

\* C4's case: two rows of the chosen province and district share their
\* sub-district, which is offered once.
C4_Witness ==
    /\ OptionsDone /\ gestures = 1
    /\ province /= None /\ district /= None
    /\ Len(data) = 2
    /\ \A i \in 1..2 : data[i].Province = province /\ data[i].District = district
    /\ data[1].Subdistrict = data[2].Subdistrict
    /\ Len(subdistrict_options) = 1
    /\ Len(happyblock_options) = 2

\* C5: with no dropdown selected and the three sliders at their initial
\* values, update_map keeps every loaded record.
C5_NoFiltersKeepEveryRecord ==
    ( /\ MapDone
      /\ province = None /\ district = None
      /\ subdistrict = None /\ happyblock = None
      /\ net_add_range = NetAddSliderValue(data)
      /\ potential_range = PotentialSliderValue
      /\ market_share_range = MarketShareSliderValue )
    => Range(figure.rows) = 1..Len(data)

\* The constraints the current control values supply: an equality for each
\* dropdown with a selection, and the three ranges.
Supplied ==
    { c \in {"Province", "District", "Sub-district", "Happy Block"} :
        \/ c = "Province" /\ Truthy(province)
        \/ c = "District" /\ Truthy(district)
        \/ c = "Sub-district" /\ Truthy(subdistrict)
        \/ c = "Happy Block" /\ Truthy(happyblock) }
    \cup {"Net Add", "Potential Score", "Market Share True (%)"}

\* frame restricted by one constraint alone.
Restrict(frame, c) ==
    CASE c = "Province"     -> WhereProvince(data, frame, province)
      [] c = "District"     -> WhereDistrict(data, frame, district)
      [] c = "Sub-district" -> WhereSubdistrict(data, frame, subdistrict)
      [] c = "Happy Block"  -> WhereHappyBlock(data, frame, happyblock)
      [] c = "Net Add" ->
            SelectSeq(frame, LAMBDA i :
                Between(data[i].NetAdd, net_add_range[1] * NetAddScale,
                        net_add_range[2] * NetAddScale))
      [] c = "Potential Score" ->
            SelectSeq(frame, LAMBDA i :
                Between(data[i].PotentialScore,
                        potential_range[1], potential_range[2]))
      [] c = "Market Share True (%)" ->
            SelectSeq(frame, LAMBDA i :
                Between(data[i].MarketShareTrue, market_share_range[1] * PctScale,
                        market_share_range[2] * PctScale))

\* The supplied constraints applied one after another, last of `order` first.
RECURSIVE RestrictAll(_, _)
RestrictAll(frame, order) ==
    IF order = <<>> THEN frame
    ELSE Restrict(RestrictAll(frame, Tail(order)), Head(order))

\* update_map's order: the four equalities, then the ranges.
MapOrder ==
    SelectSeq(<<"Market Share True (%)", "Potential Score", "Net Add",
                "Happy Block", "Sub-district", "District", "Province">>,
              LAMBDA c : c \in Supplied)

Reverse(seq) == [k \in 1..Len(seq) |-> seq[Len(seq) + 1 - k]]

\* C6: restricting by constraint A then B keeps the same records as B then
\* A, for any two supplied constraints; and update_map, which applies the
\* equalities in sequence and then the range mask, keeps the same records as
\* the constraints applied one by one in its order or in the opposite order.
C6_FilterOrderIndependent ==
    MapDone =>
        LET order == MapOrder
            alone == [k \in 1..Len(order) |-> Restrict(Copy(data), order[k])]
        IN  /\ \A k \in 1..Len(order) : \A l \in (k + 1)..Len(order) :
                   Restrict(alone[k], order[l]) = Restrict(alone[l], order[k])
            /\ figure.rows = RestrictAll(Copy(data), order)
            /\ figure.rows = RestrictAll(Copy(data), Reverse(order))

\* C6's case: two equalities and the ranges are supplied, each equality
\* alone keeps a different row, and together with the ranges one row is kept.
C6_Witness ==
    /\ MapDone
    /\ {"Province", "Happy Block"} \subseteq Supplied
    /\ Len(data) = 2
    /\ Len(Restrict(Copy(data), "Province")) = 2
    /\ Restrict(Copy(data), "Happy Block") = <<2>>
    /\ Restrict(Copy(data), "Potential Score") = <<2>>
    /\ figure.rows = <<2>>

\* C7: once loaded, the dataset is the CSV converted once, and no run of a
\* callback changes a record of it.
C7_DatasetReadOnly ==
    /\ [](pc = "running" => data = preprocess_dataset(raw))
    /\ [][pc = "running" => data' = data]_vars

\* C7's case: the user has made every gesture of the run and each callback
\* has run after the last one.
C7_Witness ==
    /\ Settled /\ gestures = MaxGestures
    /\ figure.drawn
    /\ province /= None /\ district /= None
    /\ data = preprocess_dataset(raw)
    /\ \E i \in 1..Len(data) : data[i].MarketShareTrue /= raw[i].MarketShareTrue

PercentageColumns(r) ==
    {r.MarketShareTrue, r.MarketShareAIS, r.MarketShare3BB, r.MarketShareNT}

\* C8: after preprocess_dataset every value of the four market-share columns
\* lies within [0, 100].
C8_PercentagesWithinBounds ==
    pc = "running" =>
        \A i \in 1..Len(data) : \A v \in PercentageColumns(data[i]) :
            Between(v, 0, 100 * PctScale)

\* C8's case: a stored ratio just under 1 has been rounded up to 100.
C8_Witness ==
    /\ pc = "running"
    /\ \E i \in 1..Len(data) :
           /\ raw[i].MarketShareTrue < RatioOne
           /\ data[i].MarketShareTrue = 100 * PctScale

\* C9: when the selected Province matches no rows, the District option list
\* is empty and the Sub-district and Happy Block lists computed from the same
\* selections are empty too.
C9_UnmatchedProvinceEmptiesOptions ==
    ( /\ OptionsDone
      /\ province /= None
      /\ \A i \in 1..Len(data) : data[i].Province /= province )
    => /\ district_options = <<>>
       /\ subdistrict_options = <<>>
       /\ happyblock_options = <<>>

\* C9's case: the requested province is not in the dataset while the
\* district and sub-district asked for are.
C9_Witness ==
    /\ OptionsDone /\ gestures = 1
    /\ province /= None
    /\ \A i \in 1..Len(data) : data[i].Province /= province
    /\ \E i \in 1..Len(data) :
           data[i].District = district /\ data[i].Subdistrict = subdistrict

\* C10: on a settled page each selected District, Sub-district and Happy
\* Block is one of the options its dropdown currently offers.
C10_SelectionsAreOffered ==
    Settled =>
        /\ district /= None => district \in Range(district_options)
        /\ subdistrict /= None => subdistrict \in Range(subdistrict_options)
        /\ happyblock /= None => happyblock \in Range(happyblock_options)

====
